---- MODULE Spec2Model ----
(***************************************************************************)
(* Model of glue/01-create-atlas.py: building a fully connected topology   *)
(* graph from latency probes and a bandwidth profile.                      *)
(*                                                                         *)
(* Python values that are used as dictionary keys are modelled with their  *)
(* type: [t |-> "int", v |-> "7"] is the int 7, [t |-> "str", v |-> "7"]   *)
(* is the str "7".  Python's == (and so dict membership) never equates an  *)
(* int with a str, and neither does equality of these records.             *)
(* Floats are modelled as exact rationals <<n, d>> in lowest terms, d > 0. *)
(***************************************************************************)
EXTENDS Integers, Sequences, FiniteSets, TLC

VARIABLES
    pc,                   \* position of main: "ingest", "densify", "done", "failed"
    failure,              \* why the process died: "none", "config", "assert"
    args,                 \* the parsed command line
    speed,                \* the bandwidth profile, after the global means are added
    latencies,            \* the four sample tables
    order,                \* G's nodes in insertion order (the iteration order of G)
    nodes,                \* G.nodes: node -> attribute dictionary
    edges,                \* G.edges: edge key -> [latency, packetloss]
    rows,                 \* the rows of the probe file consumed so far
    si, di,               \* positions of the loops "for s in G" / "for d in G"
    total_edges,
    num_completed_edges,
    writes                \* history: number of G.add_edge calls per edge key

vars == <<pc, failure, args, speed, latencies, order, nodes, edges, rows,
          si, di, total_edges, num_completed_edges, writes>>

-----------------------------------------------------------------------------
(* Bounds of the model *)

MaxProbes == 2

-----------------------------------------------------------------------------
(* Python values *)

PyStr(text) == [t |-> "str", v |-> text]
PyInt(text) == [t |-> "int", v |-> text]
None == [t |-> "NoneType", v |-> "None"]

\* int(text) of a csv field holding a decimal numeral
int(text) == PyInt(text)

\* str(x): the identity on a str, the decimal numeral on an int
str(x) == [t |-> "str", v |-> x.v]

-----------------------------------------------------------------------------
(* Rational arithmetic standing for float arithmetic *)

Abs(n) == IF n < 0 THEN -n ELSE n

RECURSIVE GCD(_, _)
GCD(a, b) == IF b = 0 THEN a ELSE GCD(b, a % b)

Rat(n, d) ==
    LET g == GCD(Abs(n), Abs(d))
        sgn == IF d < 0 THEN -1 ELSE 1
    IN  <<sgn * (n \div g), sgn * (d \div g)>>

RatLess(a, b) == a[1] * b[2] < b[1] * a[2]
RatLeq(a, b) == a[1] * b[2] <= b[1] * a[2]
RatMul(a, b) == Rat(a[1] * b[1], a[2] * b[2])
RatDiv(a, b) == Rat(a[1] * b[2], a[2] * b[1])
Zero == Rat(0, 1)

RECURSIVE Sum(_)
Sum(list) == IF list = <<>> THEN 0 ELSE Head(list) + Sum(Tail(list))

\* statistics.mean of a non-empty list of numbers
mean(list) == Rat(Sum(list), Len(list))

-----------------------------------------------------------------------------
(* Inputs: the probe file and the bandwidth profile *)

IPs == {"ip1", "ip2", "ip3"}
Samples == {-1, 1, 3}

\* geolocation of the probed addresses: the probe file records one city and one
\* country per address
CityOf(ip) == IF ip = "ip2" THEN "2" ELSE "1"
CountryOf(ip) == IF ip = "ip3" THEN "Y" ELSE "X"

\* the rows csv.DictReader can yield
Rows ==
    { [src |-> s, dst |-> d,
       src_country |-> CountryOf(s), dst_country |-> CountryOf(d),
       src_city |-> CityOf(s), dst_city |-> CityOf(d),
       src_city_name |-> CityOf(s), dst_city_name |-> CityOf(d),
       latency |-> l] : s \in IPs, d \in IPs, l \in Samples }

\* json.load of the bandwidth file: the keys of a JSON object are strings
SpeedFile ==
    [ cities    |-> (PyStr("1") :> [up_mbits |-> 10, down_mbits |-> 40]),
      countries |-> (PyStr("X") :> [up_mbits |-> 20, down_mbits |-> 60]) ]

RECURSIVE SumOver(_, _, _)
SumOver(f, S, field) ==
    IF S = {} THEN 0
    ELSE LET k == CHOOSE k \in S : TRUE
         IN  f[k][field] + SumOver(f, S \ {k}, field)

LoadSpeed(file) ==
    [ cities    |-> file.cities,
      countries |-> file.countries,
      global_up_mbit |->
          Rat(SumOver(file.countries, DOMAIN file.countries, "up_mbits"),
              Cardinality(DOMAIN file.countries)),
      global_down_mbit |->
          Rat(SumOver(file.countries, DOMAIN file.countries, "down_mbits"),
              Cardinality(DOMAIN file.countries)) ]

\* args: main is also modelled for a model name outside argparse's choices;
\* max_latency (ms) and max_packetloss (a fraction) are positive
Models == {"zero", "linear-latency", "bogus"}
MaxLatencies == {Rat(2, 1), Rat(5, 2)}
MaxPacketLosses == {Rat(3, 200)}

-----------------------------------------------------------------------------
(* mbit_to_kib and add_node *)

\* int(float(bw) * 122.07) for a rational bw >= 0
mbit_to_kib(bw) == (bw[1] * 12207) \div (bw[2] * 100)

add_node(G, sp, ip, city, country, city_name) ==
    LET src == IF city # None /\ city \in DOMAIN sp.cities THEN "city"
               ELSE IF country \in DOMAIN sp.countries THEN "country"
               ELSE "global"
        bwup == CASE src = "city" -> mbit_to_kib(Rat(sp.cities[city].up_mbits, 1))
                  [] src = "country" -> mbit_to_kib(Rat(sp.countries[country].up_mbits, 1))
                  [] OTHER -> mbit_to_kib(sp.global_up_mbit)
        bwdown == CASE src = "city" -> mbit_to_kib(Rat(sp.cities[city].down_mbits, 1))
                    [] src = "country" -> mbit_to_kib(Rat(sp.countries[country].down_mbits, 1))
                    [] OTHER -> mbit_to_kib(sp.global_down_mbit)
        attrs == IF city # None
                 THEN [bandwidthdown |-> bwdown, bandwidthup |-> bwup, ip |-> str(ip),
                       citycode |-> str(city), countrycode |-> str(country),
                       cityname |-> str(city_name)]
                 ELSE [bandwidthdown |-> bwdown, bandwidthup |-> bwup, ip |-> str(ip),
                       countrycode |-> str(country)]
    IN  [order |-> Append(G.order, ip), nodes |-> (ip :> attrs) @@ G.nodes]

\* "if ip not in G: add_node(...)"
add_node_if_absent(G, sp, ip, city, country, city_name) ==
    IF ip \in DOMAIN G.nodes THEN G ELSE add_node(G, sp, ip, city, country, city_name)

-----------------------------------------------------------------------------
(* track_latency *)

\* "a in table and b in table[a]"
Has(table, a, b) == a \in DOMAIN table /\ b \in DOMAIN table[a]

\* table[a].setdefault(b, []).append(latency), a in table, b not in table[a]
NewInner(table, a, b, latency) ==
    [table EXCEPT ![a] = (b :> <<latency>>) @@ @]

\* table.setdefault(a, {}).setdefault(b, []).append(latency), a not in table
NewOuter(table, a, b, latency) ==
    (a :> (b :> <<latency>>)) @@ table

track_latency_oneway(L, latency_key, src_key, dst_key, latency) ==
    LET table == L[latency_key]
    IN  IF Has(table, src_key, dst_key)
        THEN [L EXCEPT ![latency_key][src_key][dst_key] = Append(@, latency)]
        ELSE IF src_key \in DOMAIN table
        THEN [L EXCEPT ![latency_key] = NewInner(table, src_key, dst_key, latency)]
        ELSE [L EXCEPT ![latency_key] = NewOuter(table, src_key, dst_key, latency)]

track_latency(L, latency_key, src_key, dst_key, latency) ==
    LET table == L[latency_key]
    IN  IF Has(table, src_key, dst_key)
        THEN [L EXCEPT ![latency_key][src_key][dst_key] = Append(@, latency)]
        ELSE IF Has(table, dst_key, src_key)
        THEN [L EXCEPT ![latency_key][dst_key][src_key] = Append(@, latency)]
        ELSE IF src_key \in DOMAIN table
        THEN [L EXCEPT ![latency_key] = NewInner(table, src_key, dst_key, latency)]
        ELSE IF dst_key \in DOMAIN table
        THEN [L EXCEPT ![latency_key] = NewInner(table, dst_key, src_key, latency)]
        ELSE [L EXCEPT ![latency_key] = NewOuter(table, src_key, dst_key, latency)]

EmptyTable == [k \in {} |-> <<>>]

-----------------------------------------------------------------------------
(* add_edge *)

\* the first sample list of the cascade, with the granularity it was found at
resolve_oneway(N, L, s, d) ==
    IF Has(L.ip2ip, s, d)
    THEN [gran |-> "ip2ip", list |-> L.ip2ip[s][d]]
    ELSE IF /\ "citycode" \in DOMAIN N[s] /\ "citycode" \in DOMAIN N[d]
            /\ Has(L.city2city, N[s].citycode, N[d].citycode)
    THEN [gran |-> "city2city", list |-> L.city2city[N[s].citycode][N[d].citycode]]
    ELSE IF Has(L.country2country, N[s].countrycode, N[d].countrycode)
    THEN [gran |-> "country2country",
          list |-> L.country2country[N[s].countrycode][N[d].countrycode]]
    ELSE [gran |-> "global", list |-> L.global[PyStr("global")][PyStr("global")]]

resolve(N, L, s, d) ==
    IF Has(L.ip2ip, s, d)
    THEN [gran |-> "ip2ip", list |-> L.ip2ip[s][d]]
    ELSE IF Has(L.ip2ip, d, s)
    THEN [gran |-> "ip2ip", list |-> L.ip2ip[d][s]]
    ELSE IF /\ "citycode" \in DOMAIN N[s] /\ "citycode" \in DOMAIN N[d]
            /\ Has(L.city2city, N[s].citycode, N[d].citycode)
    THEN [gran |-> "city2city", list |-> L.city2city[N[s].citycode][N[d].citycode]]
    ELSE IF /\ "citycode" \in DOMAIN N[d] /\ "citycode" \in DOMAIN N[s]
            /\ Has(L.city2city, N[d].citycode, N[s].citycode)
    THEN [gran |-> "city2city", list |-> L.city2city[N[d].citycode][N[s].citycode]]
    ELSE IF Has(L.country2country, N[s].countrycode, N[d].countrycode)
    THEN [gran |-> "country2country",
          list |-> L.country2country[N[s].countrycode][N[d].countrycode]]
    ELSE IF Has(L.country2country, N[d].countrycode, N[s].countrycode)
    THEN [gran |-> "country2country",
          list |-> L.country2country[N[d].countrycode][N[s].countrycode]]
    ELSE [gran |-> "global", list |-> L.global[PyStr("global")][PyStr("global")]]

\* "assert latency > 0"
assert_ok_nonneg(latency) == RatLeq(Zero, latency)

assert_ok(latency) == RatLess(Zero, latency)

\* "if latency > max_latency: latency = max_latency"
clamp_none(latency, max_latency) == latency

clamp(latency, max_latency) ==
    IF RatLess(max_latency, latency) THEN max_latency ELSE latency

\* "packetloss = latency/max_latency*max_ploss"
packetloss_of(latency, max_latency, max_ploss) ==
    RatMul(RatDiv(latency, max_latency), max_ploss)

\* networkx.Graph is undirected: (s, d) and (d, s) name one edge, (s, s) a self-loop
EdgeKey(s, d) == {s, d}

\* add_edge when its assertion holds: the edge dictionary after G.add_edge
add_edge_unclamped_loss(E, N, L, s, d, max_latency, max_ploss) ==
    LET m == mean(resolve(N, L, s, d).list)
        latency == clamp(m, max_latency)
        packetloss == packetloss_of(m, max_latency, max_ploss)
    IN  (EdgeKey(s, d) :> [latency |-> latency, packetloss |-> packetloss]) @@ E

add_edge_no_selfloop(E, N, L, s, d, max_latency, max_ploss) ==
    LET latency == clamp(mean(resolve(N, L, s, d).list), max_latency)
        packetloss == packetloss_of(latency, max_latency, max_ploss)
    IN  IF s = d THEN E
        ELSE (EdgeKey(s, d) :> [latency |-> latency, packetloss |-> packetloss]) @@ E

add_edge(E, N, L, s, d, max_latency, max_ploss) ==
    LET latency == clamp(mean(resolve(N, L, s, d).list), max_latency)
        packetloss == packetloss_of(latency, max_latency, max_ploss)
    IN  (EdgeKey(s, d) :> [latency |-> latency, packetloss |-> packetloss]) @@ E

\* lines 84-90: the models the loop body accepts
known_model_any(model) == TRUE

known_model(model) == model \in {"zero", "linear-latency"}

\* lines 81-87: the max_packetloss handed to add_edge
max_packetloss(a) ==
    IF a.packetloss_model = "zero" THEN Zero
    ELSE IF a.packetloss_model = "linear-latency" THEN a.max_packetloss
    ELSE Zero

-----------------------------------------------------------------------------
(* Initial state: main up to the start of the row loop *)

Init ==
    /\ pc = "ingest"
    /\ failure = "none"
    /\ args \in [max_latency : MaxLatencies, max_packetloss : MaxPacketLosses,
                 packetloss_model : Models]
    /\ speed = LoadSpeed(SpeedFile)
    /\ latencies = [ip2ip |-> EmptyTable, city2city |-> EmptyTable,
                    country2country |-> EmptyTable, global |-> EmptyTable]
    /\ order = <<>>
    /\ nodes = EmptyTable
    /\ edges = EmptyTable
    /\ rows = <<>>
    /\ si = 0
    /\ di = 0
    /\ total_edges = 0
    /\ num_completed_edges = 0
    /\ writes = EmptyTable

\* one iteration of "for row in reader"
ReadRow ==
    /\ pc = "ingest"
    /\ Len(rows) < MaxProbes
    /\ \E row \in Rows :
        LET src_ip == PyStr(row.src)
            src_country == PyStr(row.src_country)
            dst_ip == PyStr(row.dst)
            dst_country == PyStr(row.dst_country)
            src_city == int(row.src_city)
            dst_city == int(row.dst_city)
            src_city_name == PyStr(row.src_city_name)
            dst_city_name == PyStr(row.dst_city_name)
            latency == row.latency
            G0 == [order |-> order, nodes |-> nodes]
            G1 == add_node_if_absent(G0, speed, src_ip, src_city, src_country, src_city_name)
            G2 == add_node_if_absent(G1, speed, dst_ip, dst_city, dst_country, dst_city_name)
            L1 == track_latency(latencies, "ip2ip", src_ip, dst_ip, latency)
            L2 == IF src_city # None /\ dst_city # None
                  THEN track_latency(L1, "city2city", src_city, dst_city, latency)
                  ELSE L1
            L3 == track_latency(L2, "country2country", src_country, dst_country, latency)
            L4 == track_latency(L3, "global", PyStr("global"), PyStr("global"), latency)
        IN  /\ order' = G2.order
            /\ nodes' = G2.nodes
            /\ latencies' = L4
            /\ rows' = Append(rows, row)
    /\ UNCHANGED <<pc, failure, args, speed, edges, si, di, total_edges,
                   num_completed_edges, writes>>

\* end of the probe file: lines 74-78, entering "for s in G"
EndOfRows ==
    /\ pc = "ingest"
    /\ pc' = "densify"
    /\ total_edges' = Len(order) * Len(order)
    /\ num_completed_edges' = 0
    /\ si' = 1
    /\ di' = 1
    /\ UNCHANGED <<failure, args, speed, latencies, order, nodes, edges, rows, writes>>

InLoop == pc = "densify" /\ si <= Len(order)

\* the loop body with an unrecognised model: fail_hard logs and exits
FailHard ==
    /\ InLoop
    /\ ~known_model(args.packetloss_model)
    /\ pc' = "failed"
    /\ failure' = "config"
    /\ UNCHANGED <<args, speed, latencies, order, nodes, edges, rows, si, di,
                   total_edges, num_completed_edges, writes>>

\* the loop body when "assert latency > 0" raises AssertionError in add_edge
AddEdgeAssertFails ==
    /\ InLoop
    /\ known_model(args.packetloss_model)
    /\ ~assert_ok(mean(resolve(nodes, latencies, order[si], order[di]).list))
    /\ pc' = "failed"
    /\ failure' = "assert"
    /\ UNCHANGED <<args, speed, latencies, order, nodes, edges, rows, si, di,
                   total_edges, num_completed_edges, writes>>

\* the loop body when add_edge returns: lines 81-92
AddEdge ==
    /\ InLoop
    /\ known_model(args.packetloss_model)
    /\ assert_ok(mean(resolve(nodes, latencies, order[si], order[di]).list))
    /\ edges' = add_edge(edges, nodes, latencies, order[si], order[di],
                         args.max_latency, max_packetloss(args))
    /\ writes' = LET k == EdgeKey(order[si], order[di])
                 IN  (k :> (IF k \in DOMAIN writes THEN writes[k] + 1 ELSE 1)) @@ writes
    /\ num_completed_edges' = num_completed_edges + 1
    /\ IF di < Len(order)
       THEN di' = di + 1 /\ si' = si
       ELSE di' = 1 /\ si' = si + 1
    /\ UNCHANGED <<pc, failure, args, speed, latencies, order, nodes, rows, total_edges>>

\* both loops are exhausted: networkx.write_graphml, main returns
WriteGraph ==
    /\ pc = "densify"
    /\ si > Len(order)
    /\ pc' = "done"
    /\ UNCHANGED <<failure, args, speed, latencies, order, nodes, edges, rows, si, di,
                   total_edges, num_completed_edges, writes>>

Next ==
    \/ ReadRow
    \/ EndOfRows
    \/ FailHard
    \/ AddEdgeAssertFails
    \/ AddEdge
    \/ WriteGraph

Spec == Init /\ [][Next]_vars
-----------------------------------------------------------------------------
(* Properties *)

Recognised == args.packetloss_model \in {"zero", "linear-latency"}
Grans == {"ip2ip", "city2city", "country2country", "global"}
Positive(q) == q[1] * q[2] > 0

\* the city code a node carries, as the number the probe file gave
CityKey(n) == PyInt(nodes[n].citycode.v)

\* the sample list of an unordered pair of keys at one granularity, or <<>>
Lookup(table, a, b) ==
    IF Has(table, a, b) THEN table[a][b]
    ELSE IF Has(table, b, a) THEN table[b][a]
    ELSE <<>>

\* the cascade as the design states it: IP pair, city pair, country pair, global
CascadeList(s, d) ==
    IF Lookup(latencies.ip2ip, s, d) # <<>>
    THEN Lookup(latencies.ip2ip, s, d)
    ELSE IF /\ "citycode" \in DOMAIN nodes[s] /\ "citycode" \in DOMAIN nodes[d]
            /\ Lookup(latencies.city2city, CityKey(s), CityKey(d)) # <<>>
    THEN Lookup(latencies.city2city, CityKey(s), CityKey(d))
    ELSE IF Lookup(latencies.country2country, nodes[s].countrycode, nodes[d].countrycode) # <<>>
    THEN Lookup(latencies.country2country, nodes[s].countrycode, nodes[d].countrycode)
    ELSE latencies.global[PyStr("global")][PyStr("global")]

Capped(m) == IF RatLess(args.max_latency, m) THEN args.max_latency ELSE m

\* C1: every stored edge carries the (capped) mean of the samples of the first
\* granularity, in the order IP pair, city pair, country pair, global, that has
\* samples for the pair; city-pair samples win over country-pair and global ones.
C1_FirstGranularity ==
    \A s \in DOMAIN nodes : \A d \in DOMAIN nodes :
        {s, d} \in DOMAIN edges =>
            edges[{s, d}].latency = Capped(mean(CascadeList(s, d)))

\* C2: when densification has completed, the graph holds exactly
\* |nodes| * (|nodes| + 1) / 2 edges: one per unordered pair, self-pairs included.
C2_Completeness ==
    pc = "done" =>
        /\ 2 * Cardinality(DOMAIN edges)
             = Cardinality(DOMAIN nodes) * (Cardinality(DOMAIN nodes) + 1)
        /\ \A s \in DOMAIN nodes : \A d \in DOMAIN nodes : {s, d} \in DOMAIN edges

C2_Witness ==
    /\ pc = "done"
    /\ Cardinality(DOMAIN nodes) = 3
    /\ Cardinality(DOMAIN edges) = 6

\* C3: at every granularity and for all keys A # B, the table never holds an
\* entry under (A, B) together with an entry under (B, A).
C3_NoSplit ==
    \A g \in Grans : \A a \in DOMAIN latencies[g] : \A b \in DOMAIN latencies[g][a] :
        a # b => ~Has(latencies[g], b, a)

\* two rows probed the same pair of addresses in opposite directions
C3_Witness ==
    /\ Len(rows) = 2
    /\ rows[1].src = rows[2].dst
    /\ rows[1].dst = rows[2].src
    /\ rows[1].src # rows[1].dst
    /\ Len(latencies.ip2ip[PyStr(rows[1].src)][PyStr(rows[1].dst)]) = 2

\* C4: for all nodes s and d, add_edge(s, d) and add_edge(d, s) resolve at the
\* same granularity, from the same sample list, and give the same edge values.
C4_Symmetric ==
    \A s \in DOMAIN nodes : \A d \in DOMAIN nodes :
        /\ resolve(nodes, latencies, s, d) = resolve(nodes, latencies, d, s)
        /\ (Positive(mean(resolve(nodes, latencies, s, d).list)) =>
              add_edge(EmptyTable, nodes, latencies, s, d, args.max_latency, args.max_packetloss)
                = add_edge(EmptyTable, nodes, latencies, d, s, args.max_latency, args.max_packetloss))

\* both add_edge(s, d) and add_edge(d, s) ran for a pair recorded only as (d, s)
C4_Witness ==
    \E s \in DOMAIN nodes : \E d \in DOMAIN nodes :
        /\ s # d
        /\ ~Has(latencies.ip2ip, s, d)
        /\ Has(latencies.ip2ip, d, s)
        /\ \E i \in 1..Len(order) : \E j \in 1..Len(order) :
              i < j /\ order[i] = s /\ order[j] = d
        /\ {s, d} \in DOMAIN writes
        /\ writes[{s, d}] = 2

\* C5: every stored edge has 0 < latency <= max_latency; a mean above
\* max_latency is stored as max_latency, any other mean is stored unchanged.
C5_Clamping ==
    \A s \in DOMAIN nodes : \A d \in DOMAIN nodes :
        {s, d} \in DOMAIN edges =>
            LET e == edges[{s, d}]
                m == mean(resolve(nodes, latencies, s, d).list)
            IN  /\ Positive(e.latency)
                /\ RatLeq(e.latency, args.max_latency)
                /\ (RatLess(args.max_latency, m) => e.latency = args.max_latency)
                /\ (RatLeq(m, args.max_latency) => e.latency = m)

\* one edge was capped (mean 3 stored as 2) and another stored its mean unchanged
C5_Witness ==
    /\ \E s \in DOMAIN nodes : \E d \in DOMAIN nodes :
          /\ {s, d} \in DOMAIN edges
          /\ mean(resolve(nodes, latencies, s, d).list) = Rat(3, 1)
          /\ args.max_latency = Rat(2, 1)
          /\ edges[{s, d}].latency = Rat(2, 1)
    /\ \E k \in DOMAIN edges : RatLess(edges[k].latency, args.max_latency)

\* C6: under linear-latency every edge has
\* packetloss = latency / max_latency * max_packetloss, within [0, max_packetloss],
\* and equal to max_packetloss when the latency was capped to max_latency.
C6_LinearLoss ==
    args.packetloss_model = "linear-latency" =>
        \A s \in DOMAIN nodes : \A d \in DOMAIN nodes :
            {s, d} \in DOMAIN edges =>
                LET e == edges[{s, d}]
                    m == mean(resolve(nodes, latencies, s, d).list)
                IN  /\ e.packetloss[1] * e.latency[2] * args.max_latency[1] * args.max_packetloss[2]
                         = e.latency[1] * args.max_packetloss[1] * e.packetloss[2] * args.max_latency[2]
                    /\ RatLeq(Zero, e.packetloss)
                    /\ RatLeq(e.packetloss, args.max_packetloss)
                    /\ (RatLess(args.max_latency, m) => e.packetloss = args.max_packetloss)

\* a capped edge at the maximum loss, and an edge at half the maximum latency
\* with half the maximum loss
C6_Witness ==
    /\ args.packetloss_model = "linear-latency"
    /\ \E s \in DOMAIN nodes : \E d \in DOMAIN nodes :
          /\ {s, d} \in DOMAIN edges
          /\ RatLess(args.max_latency, mean(resolve(nodes, latencies, s, d).list))
          /\ edges[{s, d}].packetloss = args.max_packetloss
    /\ \E k \in DOMAIN edges :
          /\ RatMul(edges[k].latency, Rat(2, 1)) = args.max_latency
          /\ RatMul(edges[k].packetloss, Rat(2, 1)) = args.max_packetloss

\* C7: a node's bandwidth comes from the first match of: its city code in the
\* profile's city mapping, its country code in the country mapping, the global means.
C7_BandwidthFirstMatch ==
    \A n \in DOMAIN nodes :
        LET a == nodes[n]
            bw == IF "citycode" \in DOMAIN a /\ a.citycode \in DOMAIN speed.cities
                  THEN <<Rat(speed.cities[a.citycode].up_mbits, 1),
                         Rat(speed.cities[a.citycode].down_mbits, 1)>>
                  ELSE IF a.countrycode \in DOMAIN speed.countries
                  THEN <<Rat(speed.countries[a.countrycode].up_mbits, 1),
                         Rat(speed.countries[a.countrycode].down_mbits, 1)>>
                  ELSE <<speed.global_up_mbit, speed.global_down_mbit>>
        IN  /\ a.bandwidthup = (bw[1][1] * 12207) \div (bw[1][2] * 100)
            /\ a.bandwidthdown = (bw[2][1] * 12207) \div (bw[2][2] * 100)

\* C8 as claimed: with an unrecognised model the run never completes and no
\* edge is ever inserted.
C8_AlwaysFatal ==
    ~Recognised => (pc # "done" /\ DOMAIN edges = {})

\* C8 amended: with an unrecognised model no edge is ever inserted, and when the
\* node set is non-empty the first loop iteration reports the configuration
\* error and ends the process; the run completes only for an empty node set.
C8_FatalWhenNodes ==
    /\ [](~Recognised =>
            /\ DOMAIN edges = {}
            /\ num_completed_edges = 0
            /\ (pc = "done" => order = <<>>)
            /\ (pc = "failed" => failure = "config")
            /\ (pc = "densify" => si = 1 /\ di = 1))
    /\ [][(~Recognised /\ pc = "densify" /\ order # <<>>)
            => (pc' = "failed" /\ failure' = "config")]_vars

C8_Witness ==
    /\ ~Recognised
    /\ pc = "failed"
    /\ failure = "config"
    /\ Len(order) >= 2

\* C9 as claimed: no edge is written by more than one add_edge invocation.
C9_WrittenOnce ==
    \A k \in DOMAIN writes : writes[k] <= 1

\* C9 amended: edges appear only during densification and an edge's latency and
\* packet loss never change once stored; the edge of two distinct nodes is
\* written by at most two invocations ((s, d) and (d, s)), a self-edge by one.
C9_StableEdges ==
    /\ [](pc = "ingest" => DOMAIN edges = {})
    /\ [](\A k \in DOMAIN edges :
            /\ k \in DOMAIN writes
            /\ writes[k] <= Cardinality(k))
    /\ [][\A k \in DOMAIN edges : k \in DOMAIN edges' /\ edges'[k] = edges[k]]_vars

\* an edge written twice, by (s, d) and by (d, s)
C9_Witness ==
    \E k \in DOMAIN edges : Cardinality(k) = 2 /\ writes[k] = 2

\* C10: an iteration whose resolved mean is <= 0 dies on the assertion and
\* stores nothing; one whose mean is > 0 stores its edge, whatever the samples.
C10_AssertOnMean ==
    /\ [][(pc = "densify" /\ si <= Len(order) /\ Recognised) =>
            LET s == order[si]
                d == order[di]
                m == mean(resolve(nodes, latencies, s, d).list)
            IN  /\ (m[1] <= 0 =>
                      pc' = "failed" /\ failure' = "assert" /\ edges' = edges)
                /\ (m[1] > 0 =>
                      pc' = "densify" /\ failure' = "none" /\ {s, d} \in DOMAIN edges')]_vars
    /\ [](failure = "assert" => {order[si], order[di]} \notin DOMAIN edges)

\* the assertion fired after an edge whose samples include a negative one was stored
C10_Witness ==
    /\ failure = "assert"
    /\ \E s \in DOMAIN nodes : \E d \in DOMAIN nodes :
          /\ {s, d} \in DOMAIN edges
          /\ \E i \in 1..Len(resolve(nodes, latencies, s, d).list) :
                resolve(nodes, latencies, s, d).list[i] <= 0
====
